---- MODULE Spec2Model ----
(***************************************************************************)
(* Code-host registrations and the OAuth authorization-code round trip of  *)
(* pkg/microservice/systemconfig/core/codehost/service/codehost.go.        *)
(*                                                                         *)
(* Text values (URLs, JSON documents) are sequences of chunks: a chunk is  *)
(* a run of ordinary characters or one special character/byte.  The empty  *)
(* string is <<>>.  Errors are strings; "" is Go's nil error.              *)
(***************************************************************************)
EXTENDS Integers, Sequences, FiniteSets, TLC

VARIABLES store, ret, inflight, pc, local

vars == <<store, ret, inflight, pc, local>>

(***************************************************************************)
(* Bounds of the model.                                                    *)
(***************************************************************************)
MaxRecords == 2
NumCreators == 2

(***************************************************************************)
(* Error values.                                                           *)
(***************************************************************************)
NotFound == "NotFound"
StoreUnavailable == "StoreUnavailable"
DecryptFailure == "DecryptFailure"
MalformedPayload == "MalformedPayload"
MalformedRedirectURI == "MalformedRedirectURI"
ProviderExchangeFailure == "ProviderExchangeFailure"
IllegalProvider == "illegal provider"

callback == <<"/api/directory/codehosts/callback">>

GitHubProvider == "github"
GitLabProvider == "gitlab"

(***************************************************************************)
(* net/url at chunk granularity.                                           *)
(***************************************************************************)
Schemes == {"https", "http"}
Hosts == {"app.example.com", "b.example.com", "0xFF", "U+FFFD"}
\* a control byte: url.Parse rejects a string that holds one
CTLBytes == {"0x7F"}

ZeroURL == [Scheme |-> "", Host |-> "", Path |-> <<>>, RawQuery |-> <<>>]

FirstIndex(s, c) ==
  IF \E i \in 1..Len(s) : s[i] = c
  THEN CHOOSE i \in 1..Len(s) : s[i] = c /\ \A j \in 1..(i - 1) : s[j] # c
  ELSE 0

Tail2(s, n) == SubSeq(s, n, Len(s))

\* url.Parse: scheme, host, path and raw query of a URL string, or an error
Parse(s) ==
  IF \E i \in 1..Len(s) : s[i] \in CTLBytes
  THEN [u |-> ZeroURL, err |-> MalformedRedirectURI]
  ELSE LET q == FirstIndex(s, "?")
           rest == IF q = 0 THEN s ELSE SubSeq(s, 1, q - 1)
           rawq == IF q = 0 THEN <<>> ELSE Tail2(s, q + 1)
           hasScheme == Len(rest) >= 2 /\ rest[1] \in Schemes /\ rest[2] = "://"
           afterScheme == IF hasScheme THEN Tail2(rest, 3) ELSE rest
           hasHost == hasScheme /\ Len(afterScheme) >= 1 /\ afterScheme[1] \in Hosts
       IN  [u |-> [Scheme |-> IF hasScheme THEN rest[1] ELSE "",
                   Host |-> IF hasHost THEN afterScheme[1] ELSE "",
                   Path |-> IF hasHost THEN Tail(afterScheme) ELSE afterScheme,
                   RawQuery |-> rawq],
            err |-> ""]

\* escape, as URL.String applies it to host and path: bytes outside the
\* unreserved ASCII range are percent-encoded when the URL is printed
EscapeChunk(c) ==
  CASE c = "0xFF" -> "%FF"
    [] c = "U+FFFD" -> "%EF%BF%BD"
    [] OTHER -> c

EscapedPath(p) == [i \in 1..Len(p) |-> EscapeChunk(p[i])]

\* URL.String
String(u) ==
  (IF u.Scheme = "" THEN <<>>
   ELSE IF u.Host = "" /\ u.Path = <<>> THEN <<u.Scheme, ":">>
   ELSE <<u.Scheme, "://">>)
  \o (IF u.Host = "" THEN <<>> ELSE <<EscapeChunk(u.Host)>>)
  \o EscapedPath(u.Path)
  \o (IF u.RawQuery = <<>> THEN <<>> ELSE <<"?">> \o u.RawQuery)

\* URL.Query: a freshly parsed copy of the query parameters
Query(u) == SelectSeq(u.RawQuery, LAMBDA c : c # "&")

\* Values.Add on such a copy
Add(v, key, value) == Append(v, key \o "=" \o value)

\* fmt.Sprintf("%s://%s%s", Scheme, Host, callback)
CallbackURL(u) ==
  (IF u.Scheme = "" THEN <<>> ELSE <<u.Scheme>>)
  \o <<"://">>
  \o (IF u.Host = "" THEN <<>> ELSE <<u.Host>>)
  \o callback

(***************************************************************************)
(* encoding/json on the state struct.                                      *)
(***************************************************************************)
\* json.Marshal of a string: HTML characters are escaped and a byte that is
\* not valid UTF-8 is replaced by the replacement rune
JSONEscape(c) ==
  CASE c = "&" -> "\\u0026"
    [] c = "0xFF" -> "\\ufffd"
    [] OTHER -> c

JSONUnescape(c) ==
  CASE c = "\\u0026" -> "&"
    [] c = "\\ufffd" -> "U+FFFD"
    [] OTHER -> c

Marshal(s) ==
  <<"{", "code_host_id", ToString(s.CodeHostID), "redirect_url">>
  \o [i \in 1..Len(s.RedirectURL) |-> JSONEscape(s.RedirectURL[i])]
  \o <<"}">>

ZeroState == [CodeHostID |-> 0, RedirectURL |-> <<>>]

IsStateJSON(t) ==
  /\ Len(t) >= 5
  /\ t[1] = "{" /\ t[2] = "code_host_id" /\ t[4] = "redirect_url" /\ t[Len(t)] = "}"
  /\ \E n \in 0..(MaxRecords + 1) : ToString(n) = t[3]

Unmarshal(t) ==
  IF ~IsStateJSON(t)
  THEN [state |-> ZeroState, err |-> MalformedPayload]
  ELSE [state |-> [CodeHostID |-> CHOOSE n \in 0..(MaxRecords + 1) : ToString(n) = t[3],
                   RedirectURL |-> [i \in 1..(Len(t) - 5) |-> JSONUnescape(t[i + 4])]],
        err |-> ""]

(***************************************************************************)
(* crypto.Aes with the process-wide key.                                   *)
(***************************************************************************)
AesKey == "process key"

Encrypt(plain) == [key |-> AesKey, body |-> plain]

Decrypt(token) ==
  IF token.key = AesKey
  THEN [plain |-> token.body, err |-> ""]
  ELSE [plain |-> <<>>, err |-> DecryptFailure]

(***************************************************************************)
(* The persistent store of code-host records (mongodb.CodehostColl).  Its  *)
(* contents are a sequence of records in insertion order.  `fault` names   *)
(* the store operation that is unavailable during the request, "" if none. *)
(***************************************************************************)
ZeroCodeHost ==
  [ID |-> 0, Type |-> "", Username |-> "", Password |-> "",
   AccessToken |-> "", RefreshToken |-> "", IsReady |-> ""]

HasID(st, id) == \E i \in 1..Len(st) : st[i].ID = id

FirstWithID(st, id) ==
  CHOOSE i \in 1..Len(st) : st[i].ID = id /\ \A j \in 1..(i - 1) : st[j].ID # id

CodeHostList(st, fault) ==
  IF fault = "CodeHostList"
  THEN [list |-> <<>>, err |-> StoreUnavailable]
  ELSE [list |-> st, err |-> ""]

AddCodeHost(st, codehost, fault) ==
  IF fault = "AddCodeHost"
  THEN [rec |-> ZeroCodeHost, err |-> StoreUnavailable, store |-> st]
  ELSE [rec |-> codehost, err |-> "", store |-> Append(st, codehost)]

GetCodeHostByID(st, id, fault) ==
  IF fault = "GetCodeHostByID"
  THEN [rec |-> ZeroCodeHost, err |-> StoreUnavailable]
  ELSE IF ~HasID(st, id)
  THEN [rec |-> ZeroCodeHost, err |-> NotFound]
  ELSE [rec |-> st[FirstWithID(st, id)], err |-> ""]

\* deleteById: afterwards getById of that id finds nothing
DeleteCodeHostByID(st, id, fault) ==
  IF fault = "DeleteCodeHostByID"
  THEN [err |-> StoreUnavailable, store |-> st]
  ELSE IF ~HasID(st, id)
  THEN [err |-> NotFound, store |-> st]
  ELSE [err |-> "", store |-> SelectSeq(st, LAMBDA c : c.ID # id)]

\* updateFields: writes the descriptive fields of the record with host's id and
\* leaves its id and its two token fields
UpdateCodeHostColl(st, host, fault) ==
  IF fault = "UpdateCodeHost"
  THEN [rec |-> ZeroCodeHost, err |-> StoreUnavailable, store |-> st]
  ELSE IF ~HasID(st, host.ID)
  THEN [rec |-> ZeroCodeHost, err |-> NotFound, store |-> st]
  ELSE LET i == FirstWithID(st, host.ID)
       IN  [rec |-> host, err |-> "",
            store |-> [st EXCEPT ![i].Type = host.Type,
                                 ![i].Username = host.Username,
                                 ![i].Password = host.Password]]

\* updateTokenFields: writes the two token fields of the record with host's id
UpdateCodeHostByTokenColl(st, host, fault) ==
  IF fault = "UpdateCodeHostByToken"
  THEN [rec |-> ZeroCodeHost, err |-> StoreUnavailable, store |-> st]
  ELSE IF ~HasID(st, host.ID)
  THEN [rec |-> ZeroCodeHost, err |-> NotFound, store |-> st]
  ELSE LET i == FirstWithID(st, host.ID)
       IN  [rec |-> host, err |-> "",
            store |-> [st EXCEPT ![i].AccessToken = host.AccessToken,
                                 ![i].RefreshToken = host.RefreshToken]]

(***************************************************************************)
(* Record lifecycle.                                                       *)
(***************************************************************************)
\* base64.StdEncoding.EncodeToString([]byte(fmt.Sprintf("%s:%s", u, p)))
Base64UserPass(username, password) ==
  "base64(" \o username \o ":" \o password \o ")"

\* variant: a gerrit record is marked ready and keeps the token it came with
DefaultedKeepsToken(codehost) ==
  IF codehost.Type \in {"codehub", "gerrit"}
  THEN [codehost EXCEPT !.IsReady = "2"]
  ELSE codehost

\* variant: every kind of record is marked ready
DefaultedAllReady(codehost) ==
  IF codehost.Type = "gerrit"
  THEN [codehost EXCEPT !.IsReady = "2",
                        !.AccessToken = Base64UserPass(codehost.Username,
                                                       codehost.Password)]
  ELSE [codehost EXCEPT !.IsReady = "2"]

\* the provider-specific defaulting at the head of CreateCodeHost
Defaulted(codehost) ==
  LET c1 == IF codehost.Type = "codehub"
            THEN [codehost EXCEPT !.IsReady = "2"]
            ELSE codehost
  IN  IF c1.Type = "gerrit"
      THEN [c1 EXCEPT !.IsReady = "2",
                      !.AccessToken = Base64UserPass(c1.Username, c1.Password)]
      ELSE c1

\* the id CreateCodeHost gives a record, from the list it has read
AssignID(list) == Len(list) + 1

CreateCodeHost(codehost, st, fault) ==
  LET c == Defaulted(codehost)
      l == CodeHostList(st, fault)
  IN  IF l.err # ""
      THEN [rec |-> ZeroCodeHost, err |-> l.err, store |-> st]
      ELSE AddCodeHost(st, [c EXCEPT !.ID = AssignID(l.list)], fault)

DeleteCodeHost(id, st, fault) == DeleteCodeHostByID(st, id, fault)

UpdateCodeHost(host, st, fault) == UpdateCodeHostColl(st, host, fault)

UpdateCodeHostByToken(host, st, fault) == UpdateCodeHostByTokenColl(st, host, fault)

\* variant: the lookup drops the id filter and takes the first record
GetCodeHostAny(id, st, fault) ==
  IF st = <<>>
  THEN [rec |-> ZeroCodeHost, err |-> NotFound]
  ELSE [rec |-> st[1], err |-> ""]

GetCodeHost(id, st, fault) == GetCodeHostByID(st, id, fault)

(***************************************************************************)
(* Provider adapters (internal/oauth).                                     *)
(***************************************************************************)
NoToken == [key |-> "", body |-> <<>>]

NoOauth == [provider |-> "", callbackURL |-> <<>>]

NoLogin == [provider |-> "", callbackURL |-> <<>>, state |-> NoToken]

\* variant: an unknown provider falls through to the GitHub adapter
NewOAuthDefaultGitHub(provider, callbackURL) ==
  IF provider = GitLabProvider
  THEN [o |-> [provider |-> GitLabProvider, callbackURL |-> callbackURL], err |-> ""]
  ELSE [o |-> [provider |-> GitHubProvider, callbackURL |-> callbackURL], err |-> ""]

NewOAuth(provider, callbackURL) ==
  CASE provider = GitHubProvider ->
         [o |-> [provider |-> GitHubProvider, callbackURL |-> callbackURL], err |-> ""]
    [] provider = GitLabProvider ->
         [o |-> [provider |-> GitLabProvider, callbackURL |-> callbackURL], err |-> ""]
    [] OTHER -> [o |-> NoOauth, err |-> IllegalProvider]

\* Oauth.LoginURL: the provider's authorize URL; the state is echoed unchanged
LoginURL(o, encrypted) ==
  [provider |-> o.provider, callbackURL |-> o.callbackURL, state |-> encrypted]

\* Oauth.HandleCallback: the code-for-token exchange; r is what the provider
\* answers to the inbound request
OauthHandleCallback(o, r) ==
  IF r.ok
  THEN [AccessToken |-> r.AccessToken, RefreshToken |-> r.RefreshToken, err |-> ""]
  ELSE [AccessToken |-> "", RefreshToken |-> "", err |-> ProviderExchangeFailure]

(***************************************************************************)
(* Authorization initiation.  `steps` lists the calls the handler made.    *)
(***************************************************************************)
\* variant: the state carries the callback URL in place of the caller's URI
stateStructCallbackURL(codeHost, redirectURI) ==
  [CodeHostID |-> codeHost.ID, RedirectURL |-> CallbackURL(Parse(redirectURI).u)]

\* the state struct literal of AuthCodeHost
stateStruct(codeHost, redirectURI) ==
  [CodeHostID |-> codeHost.ID, RedirectURL |-> redirectURI]

\* AuthCodeHost once the record is found
Authorize(codeHost, redirectURI) ==
  LET parsed == Parse(redirectURI)
      callbackURL == CallbackURL(parsed.u)
      oauth == NewOAuth(codeHost.Type, callbackURL)
      encrypted == Encrypt(Marshal(stateStruct(codeHost, redirectURI)))
  IN  IF parsed.err # ""
      THEN [login |-> NoLogin, err |-> parsed.err,
            steps |-> <<"GetCodeHost", "Parse">>, callbackURL |-> <<>>]
      ELSE IF oauth.err # ""
      THEN [login |-> NoLogin, err |-> oauth.err,
            steps |-> <<"GetCodeHost", "Parse", "NewOAuth">>,
            callbackURL |-> callbackURL]
      ELSE [login |-> LoginURL(oauth.o, encrypted), err |-> "",
            steps |-> <<"GetCodeHost", "Parse", "NewOAuth", "Marshal", "Encrypt",
                        "LoginURL">>,
            callbackURL |-> callbackURL]

\* variant: the lookup error is not checked
AuthCodeHostUnchecked(redirectURI, codeHostID, st, fault) ==
  Authorize(GetCodeHost(codeHostID, st, fault).rec, redirectURI)

AuthCodeHost(redirectURI, codeHostID, st, fault) ==
  LET got == GetCodeHost(codeHostID, st, fault)
  IN  IF got.err # ""
      THEN [login |-> NoLogin, err |-> got.err, steps |-> <<"GetCodeHost">>,
            callbackURL |-> <<>>]
      ELSE Authorize(got.rec, redirectURI)

(***************************************************************************)
(* Callback resolution.                                                    *)
(***************************************************************************)
\* handle: the parameter is added to the copy that u.Query() returned, and
\* the URL is printed from u
handle(redirectURL, err) ==
  LET parsed == Parse(redirectURL)
      q == IF err # ""
           THEN Add(Query(parsed.u), "err", err)
           ELSE Add(Query(parsed.u), "success", "true")
  IN  IF parsed.err # ""
      THEN [url |-> <<>>, err |-> parsed.err]
      ELSE [url |-> String(parsed.u), err |-> ""]

\* the result of a HandleCallback that ends in handle(state.RedirectURL, cause)
Handled(state, cause, st, steps, callbackURL) ==
  LET h == handle(state.RedirectURL, cause)
  IN  [url |-> h.url, err |-> h.err, store |-> st, steps |-> Append(steps, "handle"),
       state |-> state, cause |-> cause, callbackURL |-> callbackURL]

\* steps of a HandleCallback that got as far as the adapter
ToAdapter == <<"Decrypt", "Unmarshal", "GetCodeHost", "Parse", "NewOAuth">>

\* variant: a failed store write is reported as success
PersistIgnoringError(state, codehost, callbackURL, st, fault) ==
  LET upd == UpdateCodeHostByToken(codehost, st, fault)
  IN  Handled(state, "", upd.store,
              ToAdapter \o <<"Exchange", "UpdateCodeHostByToken">>, callbackURL)

\* HandleCallback from the store write on
Persist(state, codehost, callbackURL, st, fault) ==
  LET upd == UpdateCodeHostByToken(codehost, st, fault)
  IN  Handled(state, upd.err, upd.store,
              ToAdapter \o <<"Exchange", "UpdateCodeHostByToken">>, callbackURL)

\* variant: the tokens are written before the exchange error is looked at
ExchangePersistsFirst(state, codehost, o, r, st, fault) ==
  LET token == OauthHandleCallback(o, r)
      upd == UpdateCodeHostByToken([codehost EXCEPT !.AccessToken = token.AccessToken,
                                                    !.RefreshToken = token.RefreshToken],
                                   st, fault)
  IN  IF token.err # ""
      THEN Handled(state, token.err, upd.store, ToAdapter \o <<"Exchange">>,
                   o.callbackURL)
      ELSE Handled(state, upd.err, upd.store,
                   ToAdapter \o <<"Exchange", "UpdateCodeHostByToken">>, o.callbackURL)

\* HandleCallback from the token exchange on
Exchange(state, codehost, o, r, st, fault) ==
  LET token == OauthHandleCallback(o, r)
  IN  IF token.err # ""
      THEN Handled(state, token.err, st, ToAdapter \o <<"Exchange">>, o.callbackURL)
      ELSE Persist(state,
                   [codehost EXCEPT !.AccessToken = token.AccessToken,
                                    !.RefreshToken = token.RefreshToken],
                   o.callbackURL, st, fault)

\* variant: the callback URL is built from the whole redirect URL
ResolveWholeURL(state, codehost, r, st, fault) ==
  LET parsed == Parse(state.RedirectURL)
      callbackURL == String(parsed.u) \o callback
      o == NewOAuth(codehost.Type, callbackURL)
  IN  IF parsed.err # ""
      THEN [url |-> <<>>, err |-> parsed.err, store |-> st,
            steps |-> <<"Decrypt", "Unmarshal", "GetCodeHost", "Parse">>,
            state |-> state, cause |-> parsed.err, callbackURL |-> <<>>]
      ELSE IF o.err # ""
      THEN Handled(state, o.err, st, ToAdapter, callbackURL)
      ELSE Exchange(state, codehost, o.o, r, st, fault)

\* HandleCallback from the callback URL on, once the record is found
Resolve(state, codehost, r, st, fault) ==
  LET parsed == Parse(state.RedirectURL)
      callbackURL == CallbackURL(parsed.u)
      o == NewOAuth(codehost.Type, callbackURL)
  IN  IF parsed.err # ""
      THEN [url |-> <<>>, err |-> parsed.err, store |-> st,
            steps |-> <<"Decrypt", "Unmarshal", "GetCodeHost", "Parse">>,
            state |-> state, cause |-> parsed.err, callbackURL |-> <<>>]
      ELSE IF o.err # ""
      THEN Handled(state, o.err, st, ToAdapter, callbackURL)
      ELSE Exchange(state, codehost, o.o, r, st, fault)

\* HandleCallback once the state is decoded
Resume(state, r, st, fault) ==
  LET got == GetCodeHost(state.CodeHostID, st, fault)
  IN  IF got.err # ""
      THEN Handled(state, got.err, st, <<"Decrypt", "Unmarshal", "GetCodeHost">>, <<>>)
      ELSE Resolve(state, got.rec, r, st, fault)

\* variant: the parse error of the state document is not checked
HandleCallbackUnparsed(stateStr, r, st, fault) ==
  LET dec == Decrypt(stateStr)
  IN  IF dec.err # ""
      THEN [url |-> <<>>, err |-> dec.err, store |-> st, steps |-> <<"Decrypt">>,
            state |-> ZeroState, cause |-> dec.err, callbackURL |-> <<>>]
      ELSE Resume(Unmarshal(dec.plain).state, r, st, fault)

\* variant: the decryption error is not checked
HandleCallbackUnchecked(stateStr, r, st, fault) ==
  LET un == Unmarshal(Decrypt(stateStr).plain)
  IN  IF un.err # ""
      THEN [url |-> <<>>, err |-> un.err, store |-> st,
            steps |-> <<"Decrypt", "Unmarshal">>,
            state |-> ZeroState, cause |-> un.err, callbackURL |-> <<>>]
      ELSE Resume(un.state, r, st, fault)

HandleCallback(stateStr, r, st, fault) ==
  LET dec == Decrypt(stateStr)
      un == Unmarshal(dec.plain)
  IN  IF dec.err # ""
      THEN [url |-> <<>>, err |-> dec.err, store |-> st, steps |-> <<"Decrypt">>,
            state |-> ZeroState, cause |-> dec.err, callbackURL |-> <<>>]
      ELSE IF un.err # ""
      THEN [url |-> <<>>, err |-> un.err, store |-> st,
            steps |-> <<"Decrypt", "Unmarshal">>,
            state |-> ZeroState, cause |-> un.err, callbackURL |-> <<>>]
      ELSE Resume(un.state, r, st, fault)

(***************************************************************************)
(* Inputs of the requests.                                                 *)
(***************************************************************************)
\* every provider kind a request may name
AllTypes == {"github", "gitlab", "gerrit", "codehub", "gitee"}

\* create requests of every kind, with and without a token and a ready flag
WideRequests ==
  {[ID |-> 0, Type |-> t, Username |-> "admin", Password |-> v.Password,
    AccessToken |-> v.AccessToken, RefreshToken |-> "", IsReady |-> v.IsReady] :
     t \in AllTypes,
     v \in {[Password |-> "secret", AccessToken |-> "", IsReady |-> "0"],
            [Password |-> "hunter2", AccessToken |-> "supplied", IsReady |-> "1"]}}

\* the kinds of the records that the OAuth requests run against
Types == {"github", "gerrit", "codehub"}

Requests ==
  [ID : {0}, Type : Types, Username : {"admin"}, Password : {"secret"},
   AccessToken : {"supplied"}, RefreshToken : {""}, IsReady : {"0"}]

IDs == 1..(MaxRecords + 1)

RedirectURIs ==
  { <<"https", "://", "app.example.com", "/done", "?", "x=1", "&", "y=2">>,
    <<>>,
    <<"https", "://", "app.example.com", "/", "0x7F">>,
    <<"https", "://", "app.example.com", "/", "0xFF">>,
    <<"https", "://", "0xFF", "/done">> }

\* what the provider answers to the code-for-token exchange
Exchanges ==
  { [ok |-> TRUE, AccessToken |-> "at1", RefreshToken |-> "rt1"],
    [ok |-> FALSE, AccessToken |-> "", RefreshToken |-> ""] }

\* state strings that no AuthCodeHost call produced
ForgedTokens ==
  { [key |-> "", body |-> <<"garbage">>],
    [key |-> "other key",
     body |-> Marshal([CodeHostID |-> 1,
                       RedirectURL |-> <<"https", "://", "app.example.com", "/done">>])],
    [key |-> AesKey, body |-> <<"not a state document">>] }

(***************************************************************************)
(* State.                                                                  *)
(*   store        the records of the persistent store                      *)
(*   ret          the last request served and what it returned             *)
(*   inflight     the state token the browser carries, with the arguments  *)
(*                of the AuthCodeHost call that issued it and the callback *)
(*                URL that call gave the adapter                           *)
(*   pc, local    position and locals of the concurrent create requests    *)
(***************************************************************************)
Creators == 1..NumCreators

NoFlight == [token |-> NoToken, id |-> 0, uri |-> <<>>, callbackURL |-> <<>>]

NoRet ==
  [op |-> "", id |-> 0, err |-> "", url |-> <<>>, login |-> NoLogin, steps |-> <<>>,
   state |-> ZeroState, cause |-> "", callbackURL |-> <<>>, token |-> NoToken,
   origin |-> NoFlight, rec |-> ZeroCodeHost, afterDelete |-> FALSE,
   req |-> ZeroCodeHost]

NoLocal ==
  [codehost |-> ZeroCodeHost, list |-> <<>>, err |-> "", state |-> ZeroState,
   o |-> NoOauth]

Init ==
  /\ store = <<>>
  /\ ret = NoRet
  /\ inflight = NoFlight
  /\ pc = [p \in Creators |-> "idle"]
  /\ local = [p \in Creators |-> NoLocal]

(***************************************************************************)
(* Requests served one at a time.                                          *)
(***************************************************************************)
CreateRequest ==
  \E req \in Requests, fault \in {"", "CodeHostList"} :
    /\ Len(store) < MaxRecords
    /\ LET res == CreateCodeHost(req, store, fault)
       IN  /\ store' = res.store
           /\ ret' = [NoRet EXCEPT !.op = "CreateCodeHost", !.id = res.rec.ID,
                                   !.err = res.err, !.rec = res.rec, !.req = req]
    /\ UNCHANGED <<inflight, pc, local>>

DeleteRequest ==
  \E id \in IDs :
    /\ LET res == DeleteCodeHost(id, store, "")
       IN  /\ store' = res.store
           /\ ret' = [NoRet EXCEPT !.op = "DeleteCodeHost", !.id = id, !.err = res.err]
    /\ UNCHANGED <<inflight, pc, local>>

\* afterDelete: this request directly follows a successful delete of the same id
GetRequest ==
  \E id \in IDs :
    /\ LET res == GetCodeHost(id, store, "")
       IN  ret' = [NoRet EXCEPT !.op = "GetCodeHost", !.id = id, !.err = res.err,
                                !.rec = res.rec,
                                !.afterDelete = /\ ret.op = "DeleteCodeHost"
                                                /\ ret.err = ""
                                                /\ ret.id = id]
    /\ UNCHANGED <<store, inflight, pc, local>>

\* variant: a successful initiation marks the record in the store
AuthRequestMarking ==
  \E redirectURI \in RedirectURIs, id \in IDs :
    /\ LET res == AuthCodeHost(redirectURI, id, store, "")
       IN  /\ ret' = [NoRet EXCEPT !.op = "AuthCodeHost", !.id = id,
                                   !.err = res.err, !.login = res.login,
                                   !.steps = res.steps,
                                   !.callbackURL = res.callbackURL]
           /\ inflight' = IF res.err = ""
                          THEN [token |-> res.login.state, id |-> id, uri |-> redirectURI,
                                callbackURL |-> res.login.callbackURL]
                          ELSE inflight
           /\ store' = IF res.err = ""
                       THEN [store EXCEPT ![FirstWithID(store, id)].IsReady = "1"]
                       ELSE store
    /\ UNCHANGED <<pc, local>>

AuthRequest ==
  \E redirectURI \in RedirectURIs, id \in IDs :
    /\ LET res == AuthCodeHost(redirectURI, id, store, "")
       IN  /\ ret' = [NoRet EXCEPT !.op = "AuthCodeHost", !.id = id,
                                   !.err = res.err, !.login = res.login,
                                   !.steps = res.steps,
                                   !.callbackURL = res.callbackURL]
           /\ inflight' = IF res.err = ""
                          THEN [token |-> res.login.state, id |-> id, uri |-> redirectURI,
                                callbackURL |-> res.login.callbackURL]
                          ELSE inflight
    /\ UNCHANGED <<store, pc, local>>

CallbackRequest ==
  \E stateStr \in ({inflight.token} \ {NoToken}) \cup ForgedTokens,
     r \in Exchanges,
     fault \in {"", "UpdateCodeHostByToken"} :
    /\ LET res == HandleCallback(stateStr, r, store, fault)
       IN  /\ store' = res.store
           /\ ret' = [NoRet EXCEPT !.op = "HandleCallback", !.token = stateStr,
                                   !.origin = IF stateStr = inflight.token
                                              THEN inflight ELSE NoFlight,
                                   !.url = res.url, !.err = res.err,
                                   !.steps = res.steps, !.state = res.state,
                                   !.cause = res.cause,
                                   !.callbackURL = res.callbackURL]
    /\ UNCHANGED <<inflight, pc, local>>

Next ==
  \/ CreateRequest
  \/ DeleteRequest
  \/ GetRequest
  \/ AuthRequest
  \/ CallbackRequest

Spec == Init /\ [][Next]_vars

(***************************************************************************)
(* Concurrent CreateCodeHost requests, one per worker: the defaulting, the *)
(* list read with the id computed from it, and the add are separate store  *)
(* round trips, and other requests run between them.                       *)
(***************************************************************************)
CreateStart(p) ==
  /\ pc[p] = "idle"
  /\ \E req \in Requests :
       local' = [local EXCEPT ![p] = [NoLocal EXCEPT !.codehost = Defaulted(req)]]
  /\ pc' = [pc EXCEPT ![p] = "list"]
  /\ UNCHANGED <<store, ret, inflight>>

CreateList(p) ==
  /\ pc[p] = "list"
  /\ \E fault \in {"", "CodeHostList"} :
       LET l == CodeHostList(store, fault)
       IN  IF l.err # ""
           THEN /\ local' = [local EXCEPT ![p].err = l.err]
                /\ pc' = [pc EXCEPT ![p] = "done"]
           ELSE /\ local' = [local EXCEPT ![p].list = l.list,
                                          ![p].codehost.ID = AssignID(l.list)]
                /\ pc' = [pc EXCEPT ![p] = "add"]
  /\ UNCHANGED <<store, ret, inflight>>

\* variant: the id is computed from the store at the moment of the add
CreateAddFreshID(p) ==
  /\ pc[p] = "add"
  /\ LET res == AddCodeHost(store, [local[p].codehost EXCEPT !.ID = AssignID(store)], "")
     IN  /\ store' = res.store
         /\ local' = [local EXCEPT ![p].err = res.err, ![p].codehost = res.rec]
  /\ pc' = [pc EXCEPT ![p] = "done"]
  /\ UNCHANGED <<ret, inflight>>

CreateAdd(p) ==
  /\ pc[p] = "add"
  /\ LET res == AddCodeHost(store, local[p].codehost, "")
     IN  /\ store' = res.store
         /\ local' = [local EXCEPT ![p].err = res.err]
  /\ pc' = [pc EXCEPT ![p] = "done"]
  /\ UNCHANGED <<ret, inflight>>

NextConc == \E p \in Creators : CreateStart(p) \/ CreateList(p) \/ CreateAdd(p)

SpecConc == Init /\ [][NextConc]_vars

(***************************************************************************)
(* Creation of records of every kind.                                      *)
(***************************************************************************)
CreateAnyRequest ==
  \E req \in WideRequests :
    /\ Len(store) < MaxRecords
    /\ LET res == CreateCodeHost(req, store, "")
       IN  /\ store' = res.store
           /\ ret' = [NoRet EXCEPT !.op = "CreateCodeHost", !.id = res.rec.ID,
                                   !.err = res.err, !.rec = res.rec, !.req = req]
    /\ UNCHANGED <<inflight, pc, local>>

NextCreate == CreateAnyRequest \/ DeleteRequest

SpecCreate == Init /\ [][NextCreate]_vars

(***************************************************************************)
(* Explicit updates of stored records.                                     *)
(***************************************************************************)
\* the bodies of the update requests for the record id
UpdateBodies(id) ==
  {[ZeroCodeHost EXCEPT !.ID = id, !.Type = t, !.Username = "admin",
                        !.Password = "changed"] : t \in {"github", "gerrit"}}

UpdateRequest ==
  \E id \in IDs :
    \E host \in UpdateBodies(id) :
      /\ LET res == UpdateCodeHost(host, store, "")
         IN  /\ store' = res.store
             /\ ret' = [NoRet EXCEPT !.op = "UpdateCodeHost", !.id = id,
                                     !.err = res.err, !.rec = res.rec, !.req = host]
      /\ UNCHANGED <<inflight, pc, local>>

UpdateByTokenRequest ==
  \E id \in IDs :
    /\ LET host == [ZeroCodeHost EXCEPT !.ID = id, !.AccessToken = "at2",
                                        !.RefreshToken = "rt2"]
           res == UpdateCodeHostByToken(host, store, "")
       IN  /\ store' = res.store
           /\ ret' = [NoRet EXCEPT !.op = "UpdateCodeHostByToken", !.id = id,
                                   !.err = res.err, !.rec = res.rec, !.req = host]
    /\ UNCHANGED <<inflight, pc, local>>

NextUpdate ==
  \/ CreateRequest
  \/ UpdateRequest
  \/ UpdateByTokenRequest
  \/ DeleteRequest

SpecUpdate == Init /\ [][NextUpdate]_vars

(***************************************************************************)
(* One HandleCallback whose record read, token exchange and token write    *)
(* are separate round trips, with update and delete requests of other      *)
(* callers served in between.  It starts from a store of two records and a *)
(* token that AuthCodeHost issued for one of them.                         *)
(***************************************************************************)
Resolver == 1

\* the stores after two create requests
TwoRecordStores ==
  {CreateCodeHost(r2, CreateCodeHost(r1, <<>>, "").store, "").store :
     r1 \in Requests, r2 \in Requests}

\* what the browser holds after a successful AuthCodeHost against st
Issued(st) ==
  {[token |-> AuthCodeHost(uri, id, st, "").login.state, id |-> id, uri |-> uri,
    callbackURL |-> AuthCodeHost(uri, id, st, "").login.callbackURL] :
     <<uri, id>> \in {x \in RedirectURIs \X IDs : AuthCodeHost(x[1], x[2], st, "").err = ""}}

InitResolve ==
  /\ store \in TwoRecordStores
  /\ inflight \in Issued(store)
  /\ ret = NoRet
  /\ pc = [p \in Creators |-> "idle"]
  /\ local = [p \in Creators |-> NoLocal]

\* lines 134-159: everything before the exchange; a failure ends the request
CallbackRead ==
  /\ pc[Resolver] = "idle"
  /\ LET dec == Decrypt(inflight.token)
         un == Unmarshal(dec.plain)
         got == GetCodeHost(un.state.CodeHostID, store, "")
         parsed == Parse(un.state.RedirectURL)
         o == NewOAuth(got.rec.Type, CallbackURL(parsed.u))
         res == HandleCallback(inflight.token, [ok |-> FALSE, AccessToken |-> "",
                                                RefreshToken |-> ""], store, "")
     IN  IF dec.err # "" \/ un.err # "" \/ got.err # "" \/ parsed.err # "" \/ o.err # ""
         THEN /\ ret' = [NoRet EXCEPT !.op = "HandleCallback", !.token = inflight.token,
                                      !.origin = inflight, !.url = res.url,
                                      !.err = res.err, !.steps = res.steps,
                                      !.state = res.state, !.cause = res.cause,
                                      !.callbackURL = res.callbackURL]
              /\ pc' = [pc EXCEPT ![Resolver] = "done"]
              /\ local' = local
         ELSE /\ local' = [local EXCEPT ![Resolver].codehost = got.rec,
                                        ![Resolver].state = un.state,
                                        ![Resolver].o = o.o]
              /\ pc' = [pc EXCEPT ![Resolver] = "exchange"]
              /\ ret' = ret
  /\ UNCHANGED <<store, inflight>>

\* lines 160-165
CallbackExchange ==
  /\ pc[Resolver] = "exchange"
  /\ \E r \in Exchanges :
       LET l == local[Resolver]
           token == OauthHandleCallback(l.o, r)
           res == Handled(l.state, token.err, store, ToAdapter \o <<"Exchange">>,
                          l.o.callbackURL)
       IN  IF token.err # ""
           THEN /\ ret' = [NoRet EXCEPT !.op = "HandleCallback",
                                        !.token = inflight.token, !.origin = inflight,
                                        !.url = res.url, !.err = res.err,
                                        !.steps = res.steps, !.state = res.state,
                                        !.cause = res.cause,
                                        !.callbackURL = res.callbackURL]
                /\ pc' = [pc EXCEPT ![Resolver] = "done"]
                /\ local' = local
           ELSE /\ local' = [local EXCEPT
                               ![Resolver].codehost.AccessToken = token.AccessToken,
                               ![Resolver].codehost.RefreshToken = token.RefreshToken]
                /\ pc' = [pc EXCEPT ![Resolver] = "write"]
                /\ ret' = ret
  /\ UNCHANGED <<store, inflight>>

\* variant: the write saves the whole record the callback holds
CallbackWriteWholeRecord ==
  /\ pc[Resolver] = "write"
  /\ LET l == local[Resolver]
         res == Handled(l.state, "", store,
                        ToAdapter \o <<"Exchange", "UpdateCodeHostByToken">>,
                        l.o.callbackURL)
     IN  /\ store' = IF HasID(store, l.codehost.ID)
                     THEN [store EXCEPT ![FirstWithID(store, l.codehost.ID)] = l.codehost]
                     ELSE Append(store, l.codehost)
         /\ ret' = [NoRet EXCEPT !.op = "HandleCallback", !.token = inflight.token,
                                 !.origin = inflight, !.url = res.url, !.err = res.err,
                                 !.steps = res.steps, !.state = res.state,
                                 !.cause = res.cause, !.callbackURL = res.callbackURL]
  /\ pc' = [pc EXCEPT ![Resolver] = "done"]
  /\ UNCHANGED <<inflight, local>>

\* lines 166-170
CallbackWrite ==
  /\ pc[Resolver] = "write"
  /\ \E fault \in {"", "UpdateCodeHostByToken"} :
       LET l == local[Resolver]
           res == Persist(l.state, l.codehost, l.o.callbackURL, store, fault)
       IN  /\ store' = res.store
           /\ ret' = [NoRet EXCEPT !.op = "HandleCallback", !.token = inflight.token,
                                   !.origin = inflight, !.url = res.url,
                                   !.err = res.err, !.steps = res.steps,
                                   !.state = res.state, !.cause = res.cause,
                                   !.callbackURL = res.callbackURL]
  /\ pc' = [pc EXCEPT ![Resolver] = "done"]
  /\ UNCHANGED <<inflight, local>>

NextResolve ==
  \/ CallbackRead
  \/ CallbackExchange
  \/ CallbackWrite
  \/ UpdateRequest
  \/ DeleteRequest

SpecResolve == InitResolve /\ [][NextResolve]_vars

(***************************************************************************)
(* Properties of the callback's redirect.                                  *)
(***************************************************************************)
\* url carries the query parameter param
HasQueryParam(url, param) ==
  \E i \in 1..Len(url) :
    /\ url[i] = param
    /\ FirstIndex(url, "?") \in 1..(i - 1)

\* the last request was a HandleCallback on a token that AuthCodeHost issued
AuthenticCallback == ret.op = "HandleCallback" /\ ret.origin # NoFlight

\* the last request was a HandleCallback in which lookup, adapter resolution,
\* exchange and persistence all succeeded
SucceededCallback ==
  /\ ret.op = "HandleCallback"
  /\ ret.err = ""
  /\ ret.cause = ""

SoftFailures == {NotFound, IllegalProvider, ProviderExchangeFailure, StoreUnavailable}

\* C1: when a callback carries the token of an earlier AuthCodeHost(redirectURI,
\* id) and every step succeeds, HandleCallback returns, without error, a URL
\* that differs from redirectURI and carries success=true.
C1_SuccessRedirectCarriesSuccess ==
  (AuthenticCallback /\ SucceededCallback) =>
    /\ ret.url # ret.origin.uri
    /\ HasQueryParam(ret.url, "success=true")

\* C2: when the state decodes, the stored redirect URL parses and one of
\* lookup, adapter resolution, exchange or persistence fails with error e,
\* the returned URL carries err=<message of e>.
C2_FailureRedirectCarriesErr ==
  (ret.op = "HandleCallback" /\ ret.err = "" /\ ret.cause \in SoftFailures) =>
    HasQueryParam(ret.url, "err=" \o ret.cause)

\* C3: HandleCallback returns a hard error (empty URL) only when decoding the
\* state fails or the stored redirect URL is malformed; after any other
\* failure it returns no error and a non-empty redirect URL.
C3_HardErrorOnlyBeforeRedirectTarget ==
  ret.op = "HandleCallback" =>
    /\ ret.err # "" =>
         /\ ret.url = <<>>
         /\ \/ ret.err \in {DecryptFailure, MalformedPayload}
            \/ Parse(ret.state.RedirectURL).err # ""
    /\ (ret.cause \in SoftFailures /\ Parse(ret.state.RedirectURL).err = "") =>
         /\ ret.err = ""
         /\ ret.url # <<>>

\* C4: a state string the cipher cannot decrypt makes HandleCallback return
\* the decryption error and an empty URL, after the decryption alone: no
\* lookup, no exchange, and the store is as before.
C4_UndecryptableStateIsHardError ==
  [][(ret'.op = "HandleCallback" /\ Decrypt(ret'.token).err # "") =>
       /\ ret'.err = Decrypt(ret'.token).err
       /\ ret'.url = <<>>
       /\ ret'.steps = <<"Decrypt">>
       /\ store' = store]_vars

C4_Witness ==
  /\ ret.op = "HandleCallback"
  /\ ret.err = DecryptFailure
  /\ ret.steps = <<"Decrypt">>
  /\ \E i \in 1..Len(store) : store[i].Type = GitHubProvider

\* the text holds no byte outside valid UTF-8
ValidUTF8(s) == \A i \in 1..Len(s) : s[i] # "0xFF"

\* the last request was a HandleCallback that decoded a state from a token an
\* AuthCodeHost call issued
DecodedAuthentic ==
  /\ AuthenticCallback
  /\ ret.cause \notin {DecryptFailure, MalformedPayload}

\* C5 as stated: for every id and every redirect URI, the state decoded from
\* the token AuthCodeHost built has that id and that redirect URI.
C5_RoundTripEveryURI ==
  DecodedAuthentic =>
    /\ ret.state.CodeHostID = ret.origin.id
    /\ ret.state.RedirectURL = ret.origin.uri

\* C5 amended: for every id and every redirect URI that is valid UTF-8, the
\* state decoded from the token AuthCodeHost built has that id and that
\* redirect URI.
C5_RoundTripValidUTF8 ==
  (DecodedAuthentic /\ ValidUTF8(ret.origin.uri)) =>
    /\ ret.state.CodeHostID = ret.origin.id
    /\ ret.state.RedirectURL = ret.origin.uri

C5_Witness ==
  /\ DecodedAuthentic
  /\ \E i \in 1..Len(ret.origin.uri) : ret.origin.uri[i] = "&"
  /\ ret.state.RedirectURL = ret.origin.uri
  /\ ret.state.CodeHostID = ret.origin.id

\* C6: AuthCodeHost for an id with no record fails with NotFound and no login
\* URL after the lookup alone (no adapter, no state token), and leaves the
\* store and the token in flight as they were.
C6_AuthUnknownIDNotFound ==
  [][(ret'.op = "AuthCodeHost" /\ ~HasID(store, ret'.id)) =>
       /\ ret'.err = NotFound
       /\ ret'.login = NoLogin
       /\ ret'.steps = <<"GetCodeHost">>
       /\ store' = store
       /\ inflight' = inflight]_vars

C6_Witness ==
  /\ ret.op = "AuthCodeHost"
  /\ ret.err = NotFound
  /\ ~HasID(store, ret.id)
  /\ store # <<>>

(***************************************************************************)
(* Properties of id assignment and of the record lifecycle.                *)
(***************************************************************************)
\* positions of the store that hold a record with this id
Holding(st, id) == {i \in 1..Len(st) : st[i].ID = id}

\* the largest id in the store, 0 when it is empty
MaxID(st) ==
  IF st = <<>> THEN 0
  ELSE CHOOSE m \in {st[i].ID : i \in 1..Len(st)} :
         \A i \in 1..Len(st) : st[i].ID <= m

\* C7: with requests served one at a time, a create never assigns an id that an
\* earlier create assigned, so no two stored records share an id.
C7_NoTwoStoredRecordsShareID ==
  \A i, j \in 1..Len(store) : store[i].ID = store[j].ID => i = j

\* C8: the id a create assigns is the largest id in the store plus one (1 when
\* the store is empty).
C8_CreateAssignsMaxPlusOne ==
  [][(ret'.op = "CreateCodeHost" /\ ret'.err = "") => ret'.id = MaxID(store) + 1]_vars

\* two distinct workers whose creates both succeeded after reading the same list
ReadSameList(p, q) ==
  /\ p # q
  /\ pc[p] = "done" /\ local[p].err = ""
  /\ pc[q] = "done" /\ local[q].err = ""
  /\ local[p].list = local[q].list

\* C9: two concurrent creates that both read the record list before either
\* added its record store two records with the same id.
C9_SameListSameID ==
  \A p, q \in Creators :
    ReadSameList(p, q) =>
      Cardinality(Holding(store, AssignID(local[p].list))) >= 2

C9_Witness ==
  \E p, q \in Creators :
    /\ ReadSameList(p, q)
    /\ \E i, j \in 1..Len(store) : i # j /\ store[i].ID = store[j].ID

\* C10: a GetCodeHost(id) that directly follows a successful DeleteCodeHost(id)
\* fails with NotFound.
C10_GetAfterDeleteNotFound ==
  (ret.op = "GetCodeHost" /\ ret.afterDelete) => ret.err = NotFound

C10_Witness ==
  /\ ret.op = "GetCodeHost"
  /\ ret.afterDelete
  /\ ret.err = NotFound
  /\ store # <<>>

(***************************************************************************)
(* Properties of adapter resolution and of the callback's steps.           *)
(***************************************************************************)
Supported == {GitHubProvider, GitLabProvider}

\* the last request made this call
InSteps(step) == \E i \in 1..Len(ret.steps) : ret.steps[i] = step

\* the kind of the stored record that a lookup of id finds
StoredType(id) == store[FirstWithID(store, id)].Type

\* C14: adapter resolution succeeds exactly for the supported kinds and gives
\* an error and no adapter for any other; for a stored record of another kind
\* AuthCodeHost returns an error and no login URL, and HandleCallback makes
\* neither the token exchange nor the token write.
C14_UnsupportedKindStopsBeforeExchange ==
  /\ \A t \in AllTypes \cup {""} :
       LET n == NewOAuth(t, callback)
       IN  /\ n.err = "" <=> t \in Supported
           /\ n.err # "" => n.o = NoOauth
  /\ (/\ ret.op = "AuthCodeHost"
      /\ HasID(store, ret.id)
      /\ StoredType(ret.id) \notin Supported)
       => (ret.err # "" /\ ret.login = NoLogin)
  /\ (/\ ret.op = "HandleCallback"
      /\ ret.cause \notin {DecryptFailure, MalformedPayload}
      /\ HasID(store, ret.state.CodeHostID)
      /\ StoredType(ret.state.CodeHostID) \notin Supported)
       => (~InSteps("Exchange") /\ ~InSteps("UpdateCodeHostByToken"))

C14_Witness ==
  /\ AuthenticCallback
  /\ ret.cause = IllegalProvider
  /\ HasID(store, ret.state.CodeHostID)
  /\ StoredType(ret.state.CodeHostID) = "gerrit"

ExchangedTokens == {<<x.AccessToken, x.RefreshToken>> : x \in {y \in Exchanges : y.ok}}

\* C16: HandleCallback takes its steps in the order decode, lookup, adapter,
\* exchange, write, redirect: each step is made only after the ones before it
\* succeeded, a success redirect only after the tokens were written, and the
\* call ends in a redirect or in a hard error.
C16_StepsInOrder ==
  ret.op = "HandleCallback" =>
    /\ \/ ret.steps = <<"Decrypt">> /\ ret.err = DecryptFailure
       \/ ret.steps = <<"Decrypt", "Unmarshal">> /\ ret.err = MalformedPayload
       \/ /\ ret.steps = <<"Decrypt", "Unmarshal", "GetCodeHost", "handle">>
          /\ ret.cause \in {NotFound, StoreUnavailable}
       \/ /\ ret.steps = <<"Decrypt", "Unmarshal", "GetCodeHost", "Parse">>
          /\ ret.err = MalformedRedirectURI
       \/ /\ ret.steps = <<"Decrypt", "Unmarshal", "GetCodeHost", "Parse", "NewOAuth",
                           "handle">>
          /\ ret.cause = IllegalProvider
       \/ /\ ret.steps = <<"Decrypt", "Unmarshal", "GetCodeHost", "Parse", "NewOAuth",
                           "Exchange", "handle">>
          /\ ret.cause = ProviderExchangeFailure
       \/ /\ ret.steps = <<"Decrypt", "Unmarshal", "GetCodeHost", "Parse", "NewOAuth",
                           "Exchange", "UpdateCodeHostByToken", "handle">>
          /\ ret.cause \in {"", NotFound, StoreUnavailable}
    /\ \/ ret.err # "" /\ ret.url = <<>>
       \/ ret.err = "" /\ ret.steps[Len(ret.steps)] = "handle"
    /\ SucceededCallback =>
         \E i \in 1..Len(store) :
           /\ store[i].ID = ret.state.CodeHostID
           /\ <<store[i].AccessToken, store[i].RefreshToken>> \in ExchangedTokens

C16_Witness ==
  /\ SucceededCallback
  /\ InSteps("UpdateCodeHostByToken")
  /\ Len(store) >= 2

\* the callback URL of the form <scheme>://<host>/api/directory/codehosts/callback
\* for the scheme and host of this URI
ExpectedCallbackURL(uri) ==
  LET u == Parse(uri).u
  IN  (IF u.Scheme = "" THEN <<>> ELSE <<u.Scheme>>) \o <<"://">>
      \o (IF u.Host = "" THEN <<>> ELSE <<u.Host>>)
      \o <<"/api/directory/codehosts/callback">>

\* the last request was a HandleCallback on an issued token that built an adapter
AuthenticAdapter == AuthenticCallback /\ InSteps("NewOAuth")

\* C17 as stated: in one flow the callback URL HandleCallback gives the adapter
\* is the one AuthCodeHost gave it, <scheme>://<host>/api/directory/codehosts/callback
\* for the scheme and host of the caller's redirect URI.
C17_SameCallbackURL ==
  AuthenticAdapter =>
    /\ ret.callbackURL = ret.origin.callbackURL
    /\ ret.callbackURL = ExpectedCallbackURL(ret.origin.uri)

\* C17 amended: the same, for every redirect URI whose host is valid UTF-8.
C17_SameCallbackURLValidHost ==
  (AuthenticAdapter /\ ValidUTF8(<<Parse(ret.origin.uri).u.Host>>)) =>
    /\ ret.callbackURL = ret.origin.callbackURL
    /\ ret.callbackURL = ExpectedCallbackURL(ret.origin.uri)

C17_Witness ==
  /\ AuthenticAdapter
  /\ ~ValidUTF8(ret.origin.uri)
  /\ ValidUTF8(<<Parse(ret.origin.uri).u.Host>>)
  /\ ret.callbackURL = ret.origin.callbackURL

\* C18: a HandleCallback that ends in an error redirect because the lookup,
\* the adapter resolution or the exchange failed writes nothing: every stored
\* record has the tokens it had before.
C18_FailedCallbackWritesNothing ==
  [][(/\ ret'.op = "HandleCallback"
      /\ ret'.err = ""
      /\ \/ ret'.cause \in {IllegalProvider, ProviderExchangeFailure}
         \/ ret'.cause = NotFound /\ ~HasID(store, ret'.state.CodeHostID)) =>
       /\ Len(store') = Len(store)
       /\ \A i \in 1..Len(store) :
            /\ store'[i].AccessToken = store[i].AccessToken
            /\ store'[i].RefreshToken = store[i].RefreshToken]_vars

C18_Witness ==
  /\ ret.op = "HandleCallback"
  /\ ret.err = ""
  /\ ret.cause = ProviderExchangeFailure
  /\ \E i \in 1..Len(store) :
       store[i].ID = ret.state.CodeHostID /\ store[i].AccessToken = "supplied"

\* C20: AuthCodeHost, whether it succeeds or fails, leaves the store as it was:
\* the correlation state goes into the login URL alone.
C20_AuthLeavesStoreUnchanged ==
  [][ret'.op = "AuthCodeHost" => store' = store]_vars

C20_Witness ==
  /\ ret.op = "AuthCodeHost"
  /\ ret.err = ""
  /\ ret.login.state = inflight.token
  /\ Len(store) >= 2

(***************************************************************************)
(* Properties of the stored records.                                       *)
(***************************************************************************)
\* C11: every stored gerrit record has the token derived from its own
\* username and password and the ready flag "2", whatever requests were served.
C11_GerritRecordsDerived ==
  \A i \in 1..Len(store) :
    store[i].Type = "gerrit" =>
      /\ store[i].AccessToken = Base64UserPass(store[i].Username, store[i].Password)
      /\ store[i].IsReady = "2"

\* the record that the last, successful, create request added
Created == store[Len(store)]

\* the last request was a successful CreateCodeHost of a record of kind t
CreatedOf(t) ==
  /\ ret.op = "CreateCodeHost"
  /\ ret.err = ""
  /\ ret.req.Type = t

\* C12: right after a successful CreateCodeHost of a gerrit record the stored
\* record has the token derived from the request's username and password and
\* the ready flag "2", whatever token and flag the request carried.
C12_GerritCreateDerivesToken ==
  CreatedOf("gerrit") =>
    /\ store # <<>>
    /\ Created.Type = "gerrit"
    /\ Created.Username = ret.req.Username
    /\ Created.Password = ret.req.Password
    /\ Created.AccessToken = Base64UserPass(ret.req.Username, ret.req.Password)
    /\ Created.IsReady = "2"

C12_Witness ==
  /\ CreatedOf("gerrit")
  /\ ret.req.AccessToken = "supplied"
  /\ ret.req.IsReady = "1"
  /\ Created.AccessToken = Base64UserPass("admin", "hunter2")

\* C13: right after a successful CreateCodeHost of a codehub record the stored
\* record has the ready flag "2" and the token of the request; for a kind
\* other than gerrit and codehub it has the flag and the token of the request.
C13_OtherCreatesKeepToken ==
  /\ CreatedOf("codehub") =>
       /\ store # <<>>
       /\ Created.Type = "codehub"
       /\ Created.IsReady = "2"
       /\ Created.AccessToken = ret.req.AccessToken
  /\ (\E t \in AllTypes \ {"gerrit", "codehub"} : CreatedOf(t)) =>
       /\ store # <<>>
       /\ Created.Type = ret.req.Type
       /\ Created.IsReady = ret.req.IsReady
       /\ Created.AccessToken = ret.req.AccessToken

C13_Witness ==
  /\ CreatedOf("codehub")
  /\ ret.req.AccessToken = "supplied"
  /\ ret.req.IsReady = "1"
  /\ Len(store) = 2
  /\ store[1].Type = "gitee"
  /\ store[1].IsReady = "1"

\* C19: a HandleCallback step leaves the number of records and every field
\* but the two tokens of the record with the state's id as they were, also
\* when updates and deletes of that record are served between its read and
\* its write; the write of a successful callback sets the two tokens of that
\* record to the pair the exchange returned.
C19_CallbackWritesTokensOnly ==
  [][(pc'[Resolver] # pc[Resolver]) =>
       /\ Len(store') = Len(store)
       /\ \A i \in 1..Len(store) :
            /\ store'[i] = [store[i] EXCEPT !.AccessToken = store'[i].AccessToken,
                                            !.RefreshToken = store'[i].RefreshToken]
            /\ store'[i] # store[i] => store[i].ID = local[Resolver].state.CodeHostID
       /\ (pc[Resolver] = "write" /\ ret'.cause = "") =>
            \E i \in 1..Len(store) :
              /\ store[i].ID = ret'.state.CodeHostID
              /\ <<store'[i].AccessToken, store'[i].RefreshToken>> \in ExchangedTokens]_vars

\* a successful callback whose record was updated between its read and its write
C19_Witness ==
  /\ SucceededCallback
  /\ pc[Resolver] = "done"
  /\ local[Resolver].codehost.Password = "secret"
  /\ \E i \in 1..Len(store) :
       /\ store[i].ID = ret.state.CodeHostID
       /\ store[i].Password = "changed"
       /\ store[i].AccessToken = "at1"

====
